---- MODULE Spec2Model ----
(***************************************************************************)
(* Model of ome_tiff_batch_gui_v2.py: the reduction policy, the pyramid    *)
(* builder and OME-TIFF emitter, the HDF5 emitter, the descriptor reader   *)
(* and the batch orchestrator.                                             *)
(*                                                                         *)
(* A raster is modelled by its shape; pixel values are not modelled.       *)
(* Physical sizes are exact rationals [num, den] (the code uses floats).   *)
(***************************************************************************)
EXTENDS Integers, Sequences, FiniteSets, TLC

\* ------------------------------------------------------------------ bounds
MaxDim == 6
MaxTarget == 7

\* ------------------------------------------------------------ arithmetic
\* ceil(a / b) for a >= 0, b >= 1, without forming a + b.
CeilDiv(a, b) == (a \div b) + (IF a % b = 0 THEN 0 ELSE 1)

RECURSIVE SqrtSearch(_, _)
SqrtSearch(n, f) == IF f * f >= n THEN f ELSE SqrtSearch(n, f + 1)

\* int(np.ceil(np.sqrt(p / t))) for p > t >= 1: the least integer f with
\* f >= sqrt(p / t), i.e. f * f >= ceil(p / t).  The float computation is
\* exact for pixel counts below 2^51.
CeilSqrtRatio(p, t) == SqrtSearch(CeilDiv(p, t), 1)

\* ------------------------------------------------------ reduction policy
VARIABLES rp_pc, image_shape, target_pixels, reduction_factor, sliced_shape

rvars == <<rp_pc, image_shape, target_pixels, reduction_factor, sliced_shape>>

\* A mis-rounded factor: floor instead of ceil of the square root.
calculate_reduction_factor_floor(shape, target) ==
    LET current_pixels == shape[1] * shape[2]
    IN  IF current_pixels <= target THEN 1
        ELSE LET c == CeilSqrtRatio(current_pixels, target)
             IN  IF c * c * target <= current_pixels THEN c ELSE c - 1

calculate_reduction_factor(shape, target) ==
    LET current_pixels == shape[1] * shape[2]
    IN  IF current_pixels <= target THEN 1
        ELSE CeilSqrtRatio(current_pixels, target)

\* base[::f, ::f]: every f-th row and column, starting with index 0.
StrideShape(shape, f) == <<CeilDiv(shape[1], f), CeilDiv(shape[2], f)>>

SmallShapes == (1..MaxDim) \X (1..MaxDim)

ReductionInit ==
    /\ rp_pc = "call"
    /\ image_shape \in SmallShapes
    /\ target_pixels \in 1..MaxTarget
    /\ reduction_factor = 0
    /\ sliced_shape = <<0, 0>>

ReductionIdle ==
    /\ rp_pc = "idle"
    /\ image_shape = <<1, 1>>
    /\ target_pixels = 1
    /\ reduction_factor = 0
    /\ sliced_shape = <<0, 0>>

\* reduction_factor = calculate_reduction_factor(image_data.shape, target)
CalcFactor ==
    /\ rp_pc = "call"
    /\ reduction_factor' = calculate_reduction_factor(image_shape, target_pixels)
    /\ rp_pc' = "factor"
    /\ UNCHANGED <<image_shape, target_pixels, sliced_shape>>

\* base = base[::reduction_factor, ::reduction_factor], applied when f > 1
ApplyStride ==
    /\ rp_pc = "factor"
    /\ sliced_shape' = IF reduction_factor > 1
                       THEN StrideShape(image_shape, reduction_factor)
                       ELSE image_shape
    /\ rp_pc' = "sliced"
    /\ UNCHANGED <<image_shape, target_pixels, reduction_factor>>

\* --------------------------------------------------------- rationals
\* Physical sizes: the exact value num / den of the code's float.
Rat(n, d) == [num |-> n, den |-> d]
RatScale(r, k) == [num |-> r.num * k, den |-> r.den]
RatDiv(r, k) == [num |-> r.num, den |-> r.den * k]
RatEq(a, b) == a.num * b.den = b.num * a.den

\* Bounds of the emitters' inputs.
MaxMag == 2
MaxMinSize == 2
MaxFactor == 3
\* The length at which the model stops appending levels; the pyramids of
\* the rasters above stay well below it.
MaxLevels == 8

\* Pixel spacings in angstrom: n / 10 (0.1, 0.2, ...).
Mags == {Rat(n, 10) : n \in 1..MaxMag}

\* The data of an MRC file: its shape, (rows, cols) for a single image and
\* (sections, rows, cols) for a stack.
Rasters2D == SmallShapes
Rasters3D == {<<2>> \o s : s \in SmallShapes}

Min2(a, b) == IF a <= b THEN a ELSE b

\* ------------------------------------------- pyramid builder, OME-TIFF
\* An image held by the builder: its shape, the stride at which it samples
\* the rows and columns of the raster read, and the number of pyramid_reduce
\* calls applied to it.
Level(shape, stride, reduced) ==
    [shape |-> shape, stride |-> stride, reduced |-> reduced]

\* base after "if reduction_factor > 1: base = base[::f, ::f]".
ReducedBase(data, f) ==
    IF f > 1 THEN Level(StrideShape(data, f), f, 0) ELSE Level(data, 1, 0)

\* A spacing that forgets the stride applied to the base.
AdjustedSpacing_unscaled(mag, f) == mag

\* adjusted_pixel_spacing
AdjustedSpacing(mag, f) == IF f > 1 THEN RatScale(mag, f) ELSE mag

\* A loop test on min_size instead of min_size * 2.
MoreLevels_single(current, min_size) ==
    Min2(current.shape[1], current.shape[2]) >= min_size

\* A loop test whose threshold shrinks as min_size grows.
MoreLevels_inverse(current, min_size) ==
    LET smaller == Min2(current.shape[1], current.shape[2])
    IN  smaller >= 2 /\ smaller * min_size >= 4

\* while min(current.shape) >= min_size * 2
MoreLevels(current, min_size) ==
    Min2(current.shape[1], current.shape[2]) >= min_size * 2

\* A reduction that leaves the shape as it was.
pyramid_reduce_same(current) ==
    Level(current.shape, current.stride, current.reduced + 1)

\* skimage's pyramid_reduce(current, downscale=2): the output shape is
\* ceil(d / 2) in each dimension.
pyramid_reduce(current) ==
    Level(<<CeilDiv(current.shape[1], 2), CeilDiv(current.shape[2], 2)>>,
          current.stride, current.reduced + 1)

RECURSIVE BuildPyramid(_, _)
BuildPyramid(pyr, min_size) ==
    LET current == pyr[Len(pyr)]
    IN  IF MoreLevels(current, min_size)
        THEN BuildPyramid(Append(pyr, pyramid_reduce(current)), min_size)
        ELSE pyr

\* pixel_size_um = float(adjusted_pixel_spacing) * 0.0001
AngstromToUm(a) == RatDiv(a, 10000)

\* The OME document and the pages of the file written at output_path.
\* complete is FALSE for a file whose writing raised part-way.
OmeTiffFile(pyr, base, pixel_size_um, written) ==
    [kind |-> "ome.tif",
     size_x |-> base.shape[2], size_y |-> base.shape[1],
     physical_size_x |-> pixel_size_um, physical_size_y |-> pixel_size_um,
     subifds |-> Len(pyr) - 1,
     pages |-> SubSeq(pyr, 1, written),
     complete |-> written = Len(pyr)]

NoFile == [kind |-> "none"]

VARIABLES ome_pc, mrc_data, pixel_spacing_angstrom, min_size_arg, rf_arg,
          base, pyramid, adjusted_pixel_spacing, tiff

ovars == <<ome_pc, mrc_data, pixel_spacing_angstrom, min_size_arg, rf_arg,
           base, pyramid, adjusted_pixel_spacing, tiff>>

OmeInit ==
    /\ ome_pc = "read"
    /\ mrc_data \in Rasters2D \cup Rasters3D
    /\ pixel_spacing_angstrom \in Mags
    /\ min_size_arg \in 1..MaxMinSize
    /\ rf_arg \in 1..MaxFactor
    /\ base = Level(<<0, 0>>, 1, 0)
    /\ pyramid = <<>>
    /\ adjusted_pixel_spacing = Rat(0, 1)
    /\ tiff = NoFile

\* Lines 97-102: a raster that is not 2D raises ValueError.
OmeRejectNot2D ==
    /\ ome_pc = "read"
    /\ Len(mrc_data) # 2
    /\ ome_pc' = "raised"
    /\ UNCHANGED <<mrc_data, pixel_spacing_angstrom, min_size_arg, rf_arg,
                   base, pyramid, adjusted_pixel_spacing, tiff>>

\* Lines 97-115: read, stride reduction, pyramid = [base].
OmeReadAndReduce ==
    /\ ome_pc = "read"
    /\ Len(mrc_data) = 2
    /\ base' = ReducedBase(mrc_data, rf_arg)
    /\ adjusted_pixel_spacing' = AdjustedSpacing(pixel_spacing_angstrom, rf_arg)
    /\ pyramid' = <<base'>>
    /\ ome_pc' = "loop"
    /\ UNCHANGED <<mrc_data, pixel_spacing_angstrom, min_size_arg, rf_arg, tiff>>

\* Lines 116-118: one iteration of the while loop.
PyramidStep ==
    /\ ome_pc = "loop"
    /\ MoreLevels(pyramid[Len(pyramid)], min_size_arg)
    /\ Len(pyramid) < MaxLevels
    /\ pyramid' = Append(pyramid, pyramid_reduce(pyramid[Len(pyramid)]))
    /\ UNCHANGED <<ome_pc, mrc_data, pixel_spacing_angstrom, min_size_arg,
                   rf_arg, base, adjusted_pixel_spacing, tiff>>

\* Lines 120-166, every tif.write succeeding.
OmeWrite ==
    /\ ome_pc = "loop"
    /\ ~MoreLevels(pyramid[Len(pyramid)], min_size_arg)
    /\ tiff' = OmeTiffFile(pyramid, base, AngstromToUm(adjusted_pixel_spacing),
                           Len(pyramid))
    /\ ome_pc' = "done"
    /\ UNCHANGED <<mrc_data, pixel_spacing_angstrom, min_size_arg, rf_arg,
                   base, pyramid, adjusted_pixel_spacing>>

\* Lines 150-166, a tif.write raising after `written` pages: the writer is
\* closed by the with statement and the file stays at output_path.
OmeWriteFails ==
    /\ ome_pc = "loop"
    /\ ~MoreLevels(pyramid[Len(pyramid)], min_size_arg)
    /\ \E written \in 0..(Len(pyramid) - 1) :
         tiff' = OmeTiffFile(pyramid, base,
                             AngstromToUm(adjusted_pixel_spacing), written)
    /\ ome_pc' = "raised"
    /\ UNCHANGED <<mrc_data, pixel_spacing_angstrom, min_size_arg, rf_arg,
                   base, pyramid, adjusted_pixel_spacing>>

\* The builder before any call.
OmeIdle ==
    /\ ome_pc = "idle"
    /\ mrc_data = <<1, 1>>
    /\ pixel_spacing_angstrom = Rat(1, 10)
    /\ min_size_arg = 1
    /\ rf_arg = 1
    /\ base = Level(<<0, 0>>, 1, 0)
    /\ pyramid = <<>>
    /\ adjusted_pixel_spacing = Rat(0, 1)
    /\ tiff = NoFile

\* --------------------------------------------------------- HDF5 emitter
RECURSIVE Pow2(_)
Pow2(i) == IF i = 0 THEN 1 ELSE 2 * Pow2(i - 1)

\* A scale factor growing linearly (1, 2, 3) instead of 2**i.
ScaleFactor_linear(i) == i + 1

\* scale_factor = 2**i
ScaleFactor(i) == Pow2(i)

\* base after "if base.ndim == 3: base = base[0]".
FirstPlane(data) == IF Len(data) = 3 THEN <<data[2], data[3]>> ELSE data

\* np.arange(n) * step with its attributes: entry i is i * step.
DimScale(name, n, step, axis) ==
    [name |-> name, n |-> n, step |-> step, units |-> "nm", axis |-> axis]

ScaleEntry(scale, i) == RatScale(scale.step, i)

\* Dataset res<i> of the file with its two dimension scales: dims[0] has
\* y_scale attached and dims[1] x_scale (lines 202-222).
H5Level(i, dset, pixel_size_nm) ==
    LET current_pixel_size == RatScale(pixel_size_nm, ScaleFactor(i))
        x_scale == DimScale(<<"x_scale_res", i>>, dset.shape[2],
                            current_pixel_size, "x")
        y_scale == DimScale(<<"y_scale_res", i>>, dset.shape[1],
                            current_pixel_size, "y")
    IN  [name |-> <<"res", i>>, data |-> dset,
         x_scale |-> x_scale, y_scale |-> y_scale,
         dims |-> <<[scale |-> y_scale.name, label |-> "y"],
                    [scale |-> x_scale.name, label |-> "x"]>>]

\* The file written at output_path (lines 183-228); `written` datasets were
\* created with their scales when the writing stopped.
H5File(data, mag_a, written) ==
    LET plane == FirstPlane(data)
        dsets == <<Level(plane, 1, 0),
                   Level(StrideShape(plane, 2), 2, 0),
                   Level(StrideShape(plane, 4), 4, 0)>>
        pixel_size_nm == RatDiv(mag_a, 10)
        pixel_size_um == RatDiv(pixel_size_nm, 1000)
    IN  [kind |-> "h5",
         levels |-> [k \in 1..written |-> H5Level(k - 1, dsets[k], pixel_size_nm)],
         attrs |-> IF written = 3
                   THEN [source |-> "SerialEM .mdoc",
                         pixel_size_nm |-> pixel_size_nm,
                         pixel_size_um |-> pixel_size_um, unit |-> "nm"]
                   ELSE [source |-> "none"],
         complete |-> written = 3]

\* create_bdv_xml(xml_path, output_path.name, base.shape, pixel_size_um)
BdvXml(data, mag_a) ==
    LET plane == FirstPlane(data)
        pixel_size_um == RatDiv(RatDiv(mag_a, 10), 1000)
    IN  [kind |-> "xml",
         size |-> <<plane[2], plane[1], 1>>,
         voxelSize |-> <<pixel_size_um, pixel_size_um, pixel_size_um>>,
         affine_diagonal |-> <<pixel_size_um, pixel_size_um, pixel_size_um>>,
         complete |-> TRUE]

VARIABLES h5_pc, h5_data, mag, h5file, xmlfile

hvars == <<h5_pc, h5_data, mag, h5file, xmlfile>>

H5Init ==
    /\ h5_pc = "call"
    /\ h5_data \in Rasters2D \cup Rasters3D
    /\ mag \in Mags
    /\ h5file = NoFile
    /\ xmlfile = NoFile

H5Idle ==
    /\ h5_pc = "idle"
    /\ h5_data = <<1, 1>>
    /\ mag = Rat(1, 10)
    /\ h5file = NoFile
    /\ xmlfile = NoFile

\* create_hdf5_pyramid, every write succeeding.
H5Create ==
    /\ h5_pc = "call"
    /\ h5file' = H5File(h5_data, mag, 3)
    /\ xmlfile' = BdvXml(h5_data, mag)
    /\ h5_pc' = "done"
    /\ UNCHANGED <<h5_data, mag>>

\* A write into the HDF5 file raising: the with statement closes the file,
\* which stays at output_path; the XML is not reached.
H5WriteFails ==
    /\ h5_pc = "call"
    /\ \E written \in 0..2 : h5file' = H5File(h5_data, mag, written)
    /\ h5_pc' = "raised"
    /\ UNCHANGED <<h5_data, mag, xmlfile>>

\* The HDF5 file is complete and writing the XML raises (lines 290-291).
H5XmlFails ==
    /\ h5_pc = "call"
    /\ h5file' = H5File(h5_data, mag, 3)
    /\ xmlfile' = [kind |-> "xml", complete |-> FALSE]
    /\ h5_pc' = "raised"
    /\ UNCHANGED <<h5_data, mag>>

\* ------------------------------------------------------ metadata reader
\* The text of a descriptor is a sequence of tokens: the key, the separator
\* " = ", a numeral and the line break.  Text that is none of these is not
\* needed: the key itself serves as a right-hand side that is no number.
MaxTextLen == 7

Tokens == {"PixelSpacing", " = ", "1.5", "\n"}

RECURSIVE SeqsUpTo(_, _)
SeqsUpTo(S, n) ==
    IF n = 0 THEN {<<>>}
    ELSE LET shorter == SeqsUpTo(S, n - 1)
         IN  shorter \cup {Append(q, x) : q \in {r \in shorter : Len(r) = n - 1}, x \in S}

Texts == SeqsUpTo(Tokens, MaxTextLen)

\* "for linha in f": the lines of a text, a last line needing no line break.
RECURSIVE SplitLines(_, _)
SplitLines(text, linha) ==
    IF text = <<>> THEN (IF linha = <<>> THEN <<>> ELSE <<linha>>)
    ELSE IF Head(text) = "\n"
         THEN <<linha>> \o SplitLines(Tail(text), <<>>)
         ELSE SplitLines(Tail(text), Append(linha, Head(text)))

None == [none |-> TRUE]
Some(v) == [none |-> FALSE, value |-> v]

\* "PixelSpacing" in linha
HasKey(linha) == \E i \in 1..Len(linha) : linha[i] = "PixelSpacing"

\* linha.strip(): a separator at either end of the line loses its outer
\* blank and is a separator no more ("=" stands for what is left of it).
Strip(linha) ==
    [i \in 1..Len(linha) |->
        IF i \in {1, Len(linha)} /\ linha[i] = " = " THEN "=" ELSE linha[i]]

RECURSIVE SplitOn(_, _)
SplitOn(linha, part) ==
    IF linha = <<>> THEN <<part>>
    ELSE IF Head(linha) = " = "
         THEN <<part>> \o SplitOn(Tail(linha), <<>>)
         ELSE SplitOn(Tail(linha), Append(part, Head(linha)))

\* linha.strip().split(" = "): the parts between the separators.
Split(linha) == SplitOn(Strip(linha), <<>>)

\* float(partes[1].strip()): the one numeral parses, anything else raises
\* ValueError.
ParseFloat(part) == IF part = <<"1.5">> THEN Some(Rat(15, 10)) ELSE None

\* A reader that stops at the first line holding the key, whatever its form.
RECURSIVE ScanLines_first_key(_)
ScanLines_first_key(lines) ==
    IF lines = <<>>
    THEN [value |-> None, printed |-> "No line with 'PixelSpacing =' found."]
    ELSE LET partes == Split(Head(lines))
         IN  IF HasKey(Head(lines))
             THEN IF Len(partes) = 2 /\ ~ParseFloat(partes[2]).none
                  THEN [value |-> ParseFloat(partes[2]), printed |-> ""]
                  ELSE [value |-> None,
                        printed |-> "Could not convert value to float."]
             ELSE ScanLines_first_key(Tail(lines))

\* The for loop of get_mag over the lines of an open descriptor.
RECURSIVE ScanLines(_)
ScanLines(lines) ==
    IF lines = <<>>
    THEN [value |-> None, printed |-> "No line with 'PixelSpacing =' found."]
    ELSE LET partes == Split(Head(lines))
         IN  IF HasKey(Head(lines)) /\ Len(partes) = 2
             THEN IF ParseFloat(partes[2]).none
                  THEN [value |-> None,
                        printed |-> "Could not convert value to float."]
                  ELSE [value |-> ParseFloat(partes[2]), printed |-> ""]
             ELSE ScanLines(Tail(lines))

Absent == [absent |-> TRUE]
TextFile(text) == [absent |-> FALSE, text |-> text]

\* get_mag: FileNotFoundError is caught (lines 79-81).
get_mag(mdoc) ==
    IF mdoc.absent
    THEN [value |-> None, printed |-> "File not found"]
    ELSE ScanLines(SplitLines(mdoc.text, <<>>))

VARIABLES mag_pc, ficheiro_mdoc, mag_returned, mag_printed

mvars == <<mag_pc, ficheiro_mdoc, mag_returned, mag_printed>>

MagInit ==
    /\ mag_pc = "call"
    /\ ficheiro_mdoc \in {Absent} \cup {TextFile(text) : text \in Texts}
    /\ mag_returned = None
    /\ mag_printed = ""

MagIdle ==
    /\ mag_pc = "idle"
    /\ ficheiro_mdoc = Absent
    /\ mag_returned = None
    /\ mag_printed = ""

\* One call of get_mag.
GetMag ==
    /\ mag_pc = "call"
    /\ mag_returned' = get_mag(ficheiro_mdoc).value
    /\ mag_printed' = get_mag(ficheiro_mdoc).printed
    /\ mag_pc' = "returned"
    /\ UNCHANGED ficheiro_mdoc

\* ---------------------------------------------------- batch orchestrator
\* Program constants.
LargeImagePixels == 2000000000
ReducedTargetPixels == 1000000000
DefaultMinSize == 512

MaxFiles == 2

\* File names of the one folder processed: a stem and an extension.  The
\* stem is a sequence of name parts, so that "<stem>_blended" of one input
\* can be the stem of another.
Path(stem, ext) == [stem |-> stem, ext |-> ext]

Stems == {<<"a">>, <<"a", "_blended">>, <<"b">>}

\* The paths process_mrc_file derives from mrc_file (lines 383, 401, 428-430)
\* and create_hdf5_pyramid from output_path (line 231).
MrcFile(stem) == Path(stem, ".mrc")
MdocFile(stem) == Path(stem, ".mrc.mdoc")
BlendedFile(stem) == Path(Append(stem, "_blended"), ".mrc")
OutputTiff(stem) == Path(stem, ".ome.tif")
OutputH5(stem) == Path(stem, ".h5")
OutputXml(stem) == Path(stem, ".xml")
OutputTiffReduced(stem) == Path(Append(stem, "_reduced"), ".ome.tif")

\* The stitcher's artifacts, shared by every file of the folder.
PieceList == Path(<<"montage_plf">>, "")
EdgesX == Path(<<"MONTAGE_EDGES">>, ".xef")
EdgesY == Path(<<"MONTAGE_EDGES">>, ".yef")

AllPaths ==
    UNION {{MrcFile(st), MdocFile(st), BlendedFile(st), OutputTiff(st),
            OutputH5(st), OutputXml(st), OutputTiffReduced(st)} : st \in Stems}
    \cup {PieceList, EdgesX, EdgesY}

Exists(files, path) == files[path].kind # "none"

\* pasta.glob(prefix + "*"): the existing files whose name starts with prefix.
Glob(files, prefix) ==
    {path \in AllPaths : Exists(files, path) /\ path.stem[1] = prefix}

\* folder.glob("*.mrc") / folder.glob("**/*.mrc")
find_mrc_files(files) ==
    {path \in AllPaths : Exists(files, path) /\ path.ext = ".mrc"}

MrcContent(data) == [kind |-> "mrc", data |-> data]
MdocContent(text) == [kind |-> "mdoc", text |-> text]

\* open(path) of a descriptor, as get_mag sees it.
OpenText(files, path) ==
    IF Exists(files, path) THEN TextFile(files[path].text) ELSE Absent

\* The descriptors of the inputs: without the key, with a value that is no
\* number, and with PixelSpacing = 1.5.
MdocChoices ==
    {NoFile,
     MdocContent(<<"1.5", "\n">>),
     MdocContent(<<"PixelSpacing", " = ", "PixelSpacing", "\n">>),
     MdocContent(<<"PixelSpacing", " = ", "1.5", "\n">>)}

\* A montage as acquired: a stack of pieces.
Montage == MrcContent(<<2, 3, 4>>)

\* What blendmont may write: a small image, a stack of two sections, and
\* images below, at and above the large-image threshold.
StitchedRasters ==
    {<<3, 4>>, <<2, 3, 4>>, <<30001, 40001>>, <<40000, 50000>>,
     <<40000, 50001>>}

\* The folders a batch may start on: at most MaxFiles inputs, each with or
\* without a descriptor.
FolderOf(inputs, mdocs) ==
    [path \in AllPaths |->
        IF \E st \in inputs : path = MrcFile(st) THEN Montage
        ELSE IF \E st \in inputs : path = MdocFile(st)
             THEN mdocs[CHOOSE st \in inputs : path = MdocFile(st)]
             ELSE NoFile]

Folders ==
    UNION {{FolderOf(inputs, mdocs) : mdocs \in [inputs -> MdocChoices]} :
           inputs \in {S \in SUBSET Stems : Cardinality(S) <= MaxFiles}}

\* The orders in which glob may list a set of files.
Orders(S) ==
    {q \in [1..Cardinality(S) -> S] : \A i, j \in DOMAIN q : q[i] = q[j] => i = j}

VARIABLES folder_path, create_h5, disk_fails, fs, batch_pc, mrc_files, idx, successful,
          progress_value, progress_maximum, summary, attempted,
          ppc, pmag, pshape, plarge, preturn, plog

bvars == <<folder_path, create_h5, disk_fails, fs, batch_pc, mrc_files, idx, successful,
           progress_value, progress_maximum, summary, attempted,
           ppc, pmag, pshape, plarge, preturn, plog>>

\* The locals of the process_mrc_file call on each input.
ProcessIdle ==
    /\ ppc = [st \in Stems |-> "idle"]
    /\ pmag = [st \in Stems |-> None]
    /\ pshape = [st \in Stems |-> <<0, 0>>]
    /\ plarge = [st \in Stems |-> FALSE]
    /\ preturn = [st \in Stems |-> "none"]
    /\ plog = [st \in Stems |-> <<>>]

BatchCounters ==
    /\ mrc_files = <<>>
    /\ idx = 0
    /\ successful = 0
    /\ progress_value = 0
    /\ progress_maximum = 0
    /\ summary = <<>>
    /\ attempted = <<>>

\* start_processing has started run_batch.  disk_fails: whether a write to
\* an output container can raise in this run (a full or failing disk).
BatchInit ==
    /\ batch_pc = "start"
    /\ folder_path \in {"", "folder"}
    /\ create_h5 \in BOOLEAN
    /\ disk_fails \in BOOLEAN
    /\ fs \in (IF folder_path = "" THEN {FolderOf({}, <<>>)} ELSE Folders)
    /\ BatchCounters
    /\ ProcessIdle

BatchIdle ==
    /\ batch_pc = "idle"
    /\ folder_path = ""
    /\ create_h5 = FALSE
    /\ disk_fails = FALSE
    /\ fs = FolderOf({}, <<>>)
    /\ BatchCounters
    /\ ProcessIdle

plocals == <<ppc, pmag, pshape, plarge, preturn, plog>>

\* Lines 471-475: no folder selected.
BatchNoFolder ==
    /\ batch_pc = "start"
    /\ folder_path = ""
    /\ batch_pc' = "returned"
    /\ UNCHANGED <<folder_path, create_h5, disk_fails, fs, mrc_files, idx, successful,
                   progress_value, progress_maximum, summary, attempted, plocals>>

\* Lines 482-487: no .mrc file in the folder.
BatchNoFiles ==
    /\ batch_pc = "start"
    /\ folder_path # ""
    /\ find_mrc_files(fs) = {}
    /\ batch_pc' = "returned"
    /\ UNCHANGED <<folder_path, create_h5, disk_fails, fs, mrc_files, idx, successful,
                   progress_value, progress_maximum, summary, attempted, plocals>>

\* Lines 482-497: the files found, in the order glob lists them.
BatchFind ==
    /\ batch_pc = "start"
    /\ folder_path # ""
    /\ find_mrc_files(fs) # {}
    /\ \E order \in Orders(find_mrc_files(fs)) : mrc_files' = order
    /\ progress_maximum' = Len(mrc_files')
    /\ successful' = 0
    /\ idx' = 1
    /\ batch_pc' = "loop"
    /\ UNCHANGED <<folder_path, create_h5, disk_fails, fs, progress_value, summary,
                   attempted, plocals>>

\* The outcomes of create_ome_bigtiff_pyramid(mrc_base_path, output_path,
\* pixel_spacing_angstrom, min_size, reduction_factor=f) on a raster: whether
\* it raised, and the file it left at output_path (NoFile: none written).
\* A failing write is the first or the last tif.write.
create_ome_bigtiff_pyramid(data, spacing, min_size, f) ==
    IF Len(data) # 2
    THEN {[raised |-> TRUE, file |-> NoFile]}
    ELSE LET b == ReducedBase(data, f)
             pyr == BuildPyramid(<<b>>, min_size)
             um == AngstromToUm(AdjustedSpacing(spacing, f))
         IN  {[raised |-> FALSE, file |-> OmeTiffFile(pyr, b, um, Len(pyr))]}
             \cup {[raised |-> TRUE, file |-> OmeTiffFile(pyr, b, um, written)] :
                     written \in {0, Len(pyr) - 1}}

\* The outcomes of create_hdf5_pyramid(mrc_base_path, output_path, mag): the
\* .h5 file and its .xml sidecar.
create_hdf5_pyramid(data, mag_a) ==
    {[raised |-> FALSE, h5 |-> H5File(data, mag_a, 3), xml |-> BdvXml(data, mag_a)],
     [raised |-> TRUE, h5 |-> H5File(data, mag_a, 3),
      xml |-> [kind |-> "xml", complete |-> FALSE]]}
    \cup {[raised |-> TRUE, h5 |-> H5File(data, mag_a, written), xml |-> NoFile] :
            written \in {0, 2}}

\* A command runner that ignores the exit status.
CommandRaises_never(returncode) == FALSE

\* run_cygwin_command: "if result.returncode != 0: raise RuntimeError"
CommandRaises(returncode) == returncode # 0

\* A size test against the reduction target instead of the threshold.
IsLargeImage_target(total_pixels) == total_pixels > ReducedTargetPixels

\* is_large_image = total_pixels > 2_000_000_000
IsLargeImage(total_pixels) == total_pixels > LargeImagePixels

Event(op, status) == [op |-> op, status |-> status]

\* "except Exception: return False" / "return False"
ReturnFalse(st) ==
    /\ ppc' = [ppc EXCEPT ![st] = "returned"]
    /\ preturn' = [preturn EXCEPT ![st] = "False"]

Goto(st, label) ==
    /\ ppc' = [ppc EXCEPT ![st] = label]
    /\ UNCHANGED preturn

bframe == <<folder_path, create_h5, disk_fails, batch_pc, mrc_files, idx, successful,
            progress_value, progress_maximum, summary, attempted>>

\* Lines 382-386: the descriptor must exist.
CheckMdoc(st) ==
    /\ ppc[st] = "mdoc"
    /\ IF Exists(fs, MdocFile(st)) THEN Goto(st, "mag") ELSE ReturnFalse(st)
    /\ UNCHANGED <<bframe, fs, pmag, pshape, plarge, plog>>

\* Lines 388-394: the pixel size is read from the descriptor.
ReadMag(st) ==
    /\ ppc[st] = "mag"
    /\ pmag' = [pmag EXCEPT ![st] = get_mag(OpenText(fs, MdocFile(st))).value]
    /\ IF pmag'[st].none THEN ReturnFalse(st) ELSE Goto(st, "extract")
    /\ UNCHANGED <<bframe, fs, pshape, plarge, plog>>

\* Lines 407-408: extractpieces writes the piece list; it cannot succeed
\* without its input.
Extractpieces(st) ==
    /\ ppc[st] = "extract"
    /\ \E returncode \in {0, 1} :
         /\ returncode = 0 => Exists(fs, MrcFile(st))
         /\ fs' = IF returncode = 0
                  THEN [fs EXCEPT ![PieceList] = [kind |-> "plf"]]
                  ELSE fs
         /\ plog' = [plog EXCEPT ![st] = Append(@, Event("extractpieces", returncode))]
         /\ IF CommandRaises(returncode)
            THEN ReturnFalse(st) ELSE Goto(st, "blend")
    /\ UNCHANGED <<bframe, pmag, pshape, plarge>>

\* Lines 410-411: blendmont writes the edge files and, when it succeeds, the
\* blended image (the code does not rely on a zero status implying the file).
Blendmont(st) ==
    /\ ppc[st] = "blend"
    /\ \E returncode \in {0, 1}, edges \in BOOLEAN,
          out \in {NoFile} \cup {MrcContent(d) : d \in StitchedRasters} :
         /\ returncode = 0 =>
              /\ Exists(fs, MrcFile(st)) /\ Exists(fs, PieceList)
              /\ edges
         /\ returncode # 0 => out = NoFile
         /\ fs' = [path \in AllPaths |->
                     IF path \in {EdgesX, EdgesY} /\ edges THEN [kind |-> "edges"]
                     ELSE IF path = BlendedFile(st) /\ out # NoFile THEN out
                     ELSE fs[path]]
         /\ plog' = [plog EXCEPT ![st] = Append(@, Event("blendmont", returncode))]
         /\ IF CommandRaises(returncode)
            THEN ReturnFalse(st) ELSE Goto(st, "blended")
    /\ UNCHANGED <<bframe, pmag, pshape, plarge>>

\* Lines 413-416: the blended file must exist.
CheckBlended(st) ==
    /\ ppc[st] = "blended"
    /\ IF Exists(fs, BlendedFile(st))
       THEN /\ Goto(st, "classify")
            /\ plog' = [plog EXCEPT ![st] = Append(@, Event("blended exists", 0))]
       ELSE /\ ReturnFalse(st)
            /\ UNCHANGED plog
    /\ UNCHANGED <<bframe, fs, pmag, pshape, plarge>>

\* Lines 418-425: the size class of the first plane of the blended image.
Classify(st) ==
    /\ ppc[st] = "classify"
    /\ IF Exists(fs, BlendedFile(st))
       THEN LET image_data == FirstPlane(fs[BlendedFile(st)].data)
                total_pixels == image_data[1] * image_data[2]
            IN  /\ pshape' = [pshape EXCEPT ![st] = image_data]
                /\ plarge' = [plarge EXCEPT ![st] = IsLargeImage(total_pixels)]
                /\ Goto(st, "tiff")
       ELSE /\ ReturnFalse(st)
            /\ UNCHANGED <<pshape, plarge>>
    /\ UNCHANGED <<bframe, fs, pmag, plog>>

\* Lines 427-434: the unreduced OME-TIFF, always.
WriteTiff(st) ==
    /\ ppc[st] = "tiff"
    /\ IF Exists(fs, BlendedFile(st))
       THEN \E r \in create_ome_bigtiff_pyramid(fs[BlendedFile(st)].data,
                         pmag[st].value, DefaultMinSize, 1) :
              /\ (r.raised /\ r.file # NoFile) => disk_fails
              /\ fs' = IF r.file = NoFile THEN fs
                       ELSE [fs EXCEPT ![OutputTiff(st)] = r.file]
              /\ plog' = [plog EXCEPT ![st] =
                            Append(@, Event("ome.tif", IF r.raised THEN 1 ELSE 0))]
              /\ IF r.raised THEN ReturnFalse(st)
                 ELSE Goto(st, IF ~plarge[st] THEN "cleanup"
                               ELSE IF create_h5 THEN "h5" ELSE "reduced")
       ELSE /\ ReturnFalse(st)
            /\ UNCHANGED <<fs, plog>>
    /\ UNCHANGED <<bframe, pmag, pshape, plarge>>

\* Lines 440-444: the HDF5 file and its XML for a large image.
WriteH5(st) ==
    /\ ppc[st] = "h5"
    /\ IF Exists(fs, BlendedFile(st))
       THEN \E r \in create_hdf5_pyramid(fs[BlendedFile(st)].data, pmag[st].value) :
              /\ r.raised => disk_fails
              /\ fs' = [path \in AllPaths |->
                          IF path = OutputH5(st) THEN r.h5
                          ELSE IF path = OutputXml(st) /\ r.xml # NoFile THEN r.xml
                          ELSE fs[path]]
              /\ plog' = [plog EXCEPT ![st] =
                            Append(@, Event("h5", IF r.raised THEN 1 ELSE 0))]
              /\ IF r.raised THEN ReturnFalse(st) ELSE Goto(st, "cleanup")
       ELSE /\ ReturnFalse(st)
            /\ UNCHANGED <<fs, plog>>
    /\ UNCHANGED <<bframe, pmag, pshape, plarge>>

\* Lines 445-450: the reduced OME-TIFF for a large image.
WriteReduced(st) ==
    /\ ppc[st] = "reduced"
    /\ IF Exists(fs, BlendedFile(st))
       THEN \E r \in create_ome_bigtiff_pyramid(fs[BlendedFile(st)].data,
                         pmag[st].value, DefaultMinSize,
                         calculate_reduction_factor(pshape[st], ReducedTargetPixels)) :
              /\ (r.raised /\ r.file # NoFile) => disk_fails
              /\ fs' = IF r.file = NoFile THEN fs
                       ELSE [fs EXCEPT ![OutputTiffReduced(st)] = r.file]
              /\ plog' = [plog EXCEPT ![st] =
                            Append(@, Event("reduced.ome.tif", IF r.raised THEN 1 ELSE 0))]
              /\ IF r.raised THEN ReturnFalse(st) ELSE Goto(st, "cleanup")
       ELSE /\ ReturnFalse(st)
            /\ UNCHANGED <<fs, plog>>
    /\ UNCHANGED <<bframe, pmag, pshape, plarge>>

\* Lines 452-464: the stitcher's artifacts are removed; return True.
Cleanup(st) ==
    /\ ppc[st] = "cleanup"
    /\ fs' = [path \in AllPaths |->
                IF \/ path \in Glob(fs, "MONTAGE_EDGES")
                   \/ path \in Glob(fs, "montage_plf")
                   \/ path = BlendedFile(st)
                THEN NoFile ELSE fs[path]]
    /\ plog' = [plog EXCEPT ![st] = Append(@, Event("cleanup", 0))]
    /\ ppc' = [ppc EXCEPT ![st] = "returned"]
    /\ preturn' = [preturn EXCEPT ![st] = "True"]
    /\ UNCHANGED <<bframe, pmag, pshape, plarge>>

\* The file the batch loop is at.
Current == mrc_files[idx].stem

\* A tally that counts every file, successful or not.
Tally_all(count, result) == count + 1

\* "if self.process_mrc_file(mrc_file): successful += 1"
Tally(count, result) == IF result = "True" THEN count + 1 ELSE count

\* Lines 498-501: process_mrc_file is called on the next file.
BatchCall ==
    /\ batch_pc = "loop"
    /\ idx <= Len(mrc_files)
    /\ ppc[Current] = "idle"
    /\ ppc' = [ppc EXCEPT ![Current] = "mdoc"]
    /\ attempted' = Append(attempted, mrc_files[idx])
    /\ UNCHANGED <<folder_path, create_h5, disk_fails, batch_pc, mrc_files, idx, successful,
                   progress_value, progress_maximum, summary,
                   fs, pmag, pshape, plarge, preturn, plog>>

\* Lines 501-504: the call has returned.
BatchTally ==
    /\ batch_pc = "loop"
    /\ idx <= Len(mrc_files)
    /\ ppc[Current] = "returned"
    /\ successful' = Tally(successful, preturn[Current])
    /\ progress_value' = idx
    /\ idx' = idx + 1
    /\ ppc' = [ppc EXCEPT ![Current] = "tallied"]
    /\ UNCHANGED <<folder_path, create_h5, disk_fails, fs, batch_pc, mrc_files,
                   progress_maximum, summary, attempted,
                   pmag, pshape, plarge, preturn, plog>>

\* Lines 506-508: the summary.
BatchFinish ==
    /\ batch_pc = "loop"
    /\ idx > Len(mrc_files)
    /\ summary' = <<successful, Len(mrc_files)>>
    /\ batch_pc' = "done"
    /\ UNCHANGED <<folder_path, create_h5, disk_fails, fs, mrc_files, idx, successful,
                   progress_value, progress_maximum, attempted, plocals>>

\* ------------------------------------------------------ specifications
vars == <<rvars, ovars, hvars, mvars, bvars>>

\* The reduction policy on its own: a factor is computed for a shape and a
\* budget, then the stride is applied.
InitReduction == ReductionInit /\ OmeIdle /\ H5Idle /\ MagIdle /\ BatchIdle

ReductionNext ==
    \/ CalcFactor /\ UNCHANGED <<ovars, hvars, mvars, bvars>>
    \/ ApplyStride /\ UNCHANGED <<ovars, hvars, mvars, bvars>>

SpecReduction == InitReduction /\ [][ReductionNext]_vars

\* One call of create_ome_bigtiff_pyramid.
InitOme == OmeInit /\ ReductionIdle /\ H5Idle /\ MagIdle /\ BatchIdle

OmeNext ==
    \/ OmeRejectNot2D /\ UNCHANGED <<rvars, hvars, mvars, bvars>>
    \/ OmeReadAndReduce /\ UNCHANGED <<rvars, hvars, mvars, bvars>>
    \/ PyramidStep /\ UNCHANGED <<rvars, hvars, mvars, bvars>>
    \/ OmeWrite /\ UNCHANGED <<rvars, hvars, mvars, bvars>>
    \/ OmeWriteFails /\ UNCHANGED <<rvars, hvars, mvars, bvars>>

SpecOme == InitOme /\ [][OmeNext]_vars

\* The call runs on: a statement that can execute does execute.
SpecOmeFair == SpecOme /\ WF_vars(OmeNext)

\* One call of create_hdf5_pyramid.
InitH5 == H5Init /\ ReductionIdle /\ OmeIdle /\ MagIdle /\ BatchIdle

H5Next ==
    \/ H5Create /\ UNCHANGED <<rvars, ovars, mvars, bvars>>
    \/ H5WriteFails /\ UNCHANGED <<rvars, ovars, mvars, bvars>>
    \/ H5XmlFails /\ UNCHANGED <<rvars, ovars, mvars, bvars>>

SpecH5 == InitH5 /\ [][H5Next]_vars

\* One call of get_mag.
InitMag == MagInit /\ ReductionIdle /\ OmeIdle /\ H5Idle /\ BatchIdle

MagNext == GetMag /\ UNCHANGED <<rvars, ovars, hvars, bvars>>

SpecMag == InitMag /\ [][MagNext]_vars

\* One run of run_batch: the files are processed one after the other.
InitBatch == BatchInit /\ ReductionIdle /\ OmeIdle /\ H5Idle /\ MagIdle

others == <<rvars, ovars, hvars, mvars>>

BatchNext ==
    \/ BatchNoFolder /\ UNCHANGED others
    \/ BatchNoFiles /\ UNCHANGED others
    \/ BatchFind /\ UNCHANGED others
    \/ BatchCall /\ UNCHANGED others
    \/ \E st \in Stems : CheckMdoc(st) /\ UNCHANGED others
    \/ \E st \in Stems : ReadMag(st) /\ UNCHANGED others
    \/ \E st \in Stems : Extractpieces(st) /\ UNCHANGED others
    \/ \E st \in Stems : Blendmont(st) /\ UNCHANGED others
    \/ \E st \in Stems : CheckBlended(st) /\ UNCHANGED others
    \/ \E st \in Stems : Classify(st) /\ UNCHANGED others
    \/ \E st \in Stems : WriteTiff(st) /\ UNCHANGED others
    \/ \E st \in Stems : WriteH5(st) /\ UNCHANGED others
    \/ \E st \in Stems : WriteReduced(st) /\ UNCHANGED others
    \/ \E st \in Stems : Cleanup(st) /\ UNCHANGED others
    \/ BatchTally /\ UNCHANGED others
    \/ BatchFinish /\ UNCHANGED others

SpecBatch == InitBatch /\ [][BatchNext]_vars

\* The same batch on a disk whose writes never fail.
InitBatchSoundDisk == InitBatch /\ ~disk_fails

SpecBatchSoundDisk == InitBatchSoundDisk /\ [][BatchNext]_vars

\* Runs of process_mrc_file started together on files of one folder, as an
\* integrator processing files in parallel would; their steps interleave.
\* The environment is sound: every input has a descriptor with a pixel size,
\* no write fails, and the stitcher commands fail only for want of a file
\* they read.
GoodMdoc == MdocContent(<<"PixelSpacing", " = ", "1.5", "\n">>)

\* What blendmont writes in these runs: a small and a large 2D image.
ParallelRasters == {<<3, 4>>, <<40000, 50001>>}

\* mrc_files: the inputs of the folder; attempted: those a run was started on.
ParallelInit ==
    /\ batch_pc = "parallel"
    /\ folder_path = "folder"
    /\ create_h5 \in BOOLEAN
    /\ disk_fails = FALSE
    /\ \E inputs \in {S \in SUBSET Stems : Cardinality(S) \in 1..MaxFiles} :
         \E order \in Orders({MrcFile(st) : st \in inputs}) :
           \E n \in 1..Len(order) :
             /\ fs = FolderOf(inputs, [st \in inputs |-> GoodMdoc])
             /\ mrc_files = order
             /\ attempted = SubSeq(order, 1, n)
             /\ ppc = [st \in Stems |->
                         IF \E k \in 1..n : order[k] = MrcFile(st)
                         THEN "mdoc" ELSE "idle"]
    /\ idx = 0
    /\ successful = 0
    /\ progress_value = 0
    /\ progress_maximum = 0
    /\ summary = <<>>
    /\ pmag = [st \in Stems |-> None]
    /\ pshape = [st \in Stems |-> <<0, 0>>]
    /\ plarge = [st \in Stems |-> FALSE]
    /\ preturn = [st \in Stems |-> "none"]
    /\ plog = [st \in Stems |-> <<>>]

\* The exit status of the command the step has just run.
LastStatus(st) == plog'[st][Len(plog'[st])].status

\* extractpieces succeeds when its input exists.
SoundExtractpieces(st) ==
    /\ Extractpieces(st)
    /\ Exists(fs, MrcFile(st)) => LastStatus(st) = 0

\* blendmont succeeds and writes the blended image when the input and the
\* piece list exist.
SoundBlendmont(st) ==
    /\ Blendmont(st)
    /\ (Exists(fs, MrcFile(st)) /\ Exists(fs, PieceList)) =>
          /\ LastStatus(st) = 0
          /\ fs'[BlendedFile(st)] \in {MrcContent(d) : d \in ParallelRasters}

InitParallel == ParallelInit /\ ReductionIdle /\ OmeIdle /\ H5Idle /\ MagIdle

ParallelNext ==
    \/ \E st \in Stems : CheckMdoc(st) /\ UNCHANGED others
    \/ \E st \in Stems : ReadMag(st) /\ UNCHANGED others
    \/ \E st \in Stems : SoundExtractpieces(st) /\ UNCHANGED others
    \/ \E st \in Stems : SoundBlendmont(st) /\ UNCHANGED others
    \/ \E st \in Stems : CheckBlended(st) /\ UNCHANGED others
    \/ \E st \in Stems : Classify(st) /\ UNCHANGED others
    \/ \E st \in Stems : WriteTiff(st) /\ UNCHANGED others
    \/ \E st \in Stems : WriteH5(st) /\ UNCHANGED others
    \/ \E st \in Stems : WriteReduced(st) /\ UNCHANGED others
    \/ \E st \in Stems : Cleanup(st) /\ UNCHANGED others

SpecParallel == InitParallel /\ [][ParallelNext]_vars

\* ------------------------------------------------------------------ claims

\* ceil((w/f)*(h/f)) over the reals: ceil(w*h / f^2).
RealReducedPixels(shape, f) == CeilDiv(shape[1] * shape[2], f * f)

\* C1: calculate_reduction_factor returns 1 when w*h <= B; otherwise the
\* returned f satisfies ceil((w/f)*(h/f)) <= B and f-1 does not.
C1_FactorMinimal ==
    rp_pc # "call" =>
        LET p == image_shape[1] * image_shape[2]
            f == reduction_factor
        IN  IF p <= target_pixels
            THEN f = 1
            ELSE /\ f >= 2
                 /\ RealReducedPixels(image_shape, f) <= target_pixels
                 /\ RealReducedPixels(image_shape, f - 1) > target_pixels

C1_Witness ==
    /\ rp_pc = "factor"
    /\ image_shape[1] * image_shape[2] > target_pixels
    /\ reduction_factor >= 3

\* C2: the image produced by base[::f, ::f] with the returned factor has at
\* most B pixels.
C2_SlicedWithinBudget ==
    rp_pc = "sliced" => sliced_shape[1] * sliced_shape[2] <= target_pixels

\* The base the pyramid of this call starts from.
ExpectedBaseShape ==
    IF rf_arg > 1
    THEN <<CeilDiv(mrc_data[1], rf_arg), CeilDiv(mrc_data[2], rf_arg)>>
    ELSE mrc_data

LevelMin(k) == Min2(pyramid[k].shape[1], pyramid[k].shape[2])

\* C3: level 0 is always present and is the (stride-pre-reduced) base; level
\* k is followed by another level exactly when its smaller dimension is
\* >= 2 * min_size, so in the finished pyramid the last level is the only one
\* whose smaller dimension is < 2 * min_size.
C3_LevelsByThreshold ==
    /\ ome_pc \in {"loop", "done"} =>
         /\ Len(pyramid) >= 1
         /\ pyramid[1].shape = ExpectedBaseShape
         /\ pyramid[1].reduced = 0
         /\ pyramid[1].stride = rf_arg
         /\ \A k \in 1..(Len(pyramid) - 1) : LevelMin(k) >= 2 * min_size_arg
    /\ ome_pc = "done" =>
         /\ \A k \in 1..Len(pyramid) :
              (k < Len(pyramid)) <=> (LevelMin(k) >= 2 * min_size_arg)
         /\ tiff.pages = pyramid

C3_Witness ==
    /\ ome_pc = "done"
    /\ Len(pyramid) >= 3
    /\ rf_arg > 1

C3_WitnessOneLevel ==
    /\ ome_pc = "done"
    /\ Len(pyramid) = 1
    /\ Min2(mrc_data[1], mrc_data[2]) < 2 * min_size_arg

\* C4: the OME metadata describes the post-reduction base: size_x / size_y
\* are the level-0 columns / rows and physical_size_x = physical_size_y =
\* angstrom * f * 1e-4 (f = 1 without reduction).
C4_MetadataOfReducedBase ==
    ome_pc = "done" =>
        /\ tiff.size_x = tiff.pages[1].shape[2]
        /\ tiff.size_y = tiff.pages[1].shape[1]
        /\ tiff.size_x = CeilDiv(mrc_data[2], rf_arg)
        /\ tiff.size_y = CeilDiv(mrc_data[1], rf_arg)
        /\ RatEq(tiff.physical_size_x,
                 Rat(pixel_spacing_angstrom.num * rf_arg,
                     pixel_spacing_angstrom.den * 10000))
        /\ tiff.physical_size_y = tiff.physical_size_x

C4_Witness ==
    /\ ome_pc = "done"
    /\ rf_arg = 2
    /\ mrc_data[1] # mrc_data[2]
    /\ RatEq(tiff.physical_size_x,
             RatScale(RatDiv(pixel_spacing_angstrom, 10000), 2))

\* C5: create_hdf5_pyramid writes exactly the three levels res0, res1, res2,
\* the base at strides 1, 2 and 4 (res_k has ceil(h/2^k) rows and ceil(w/2^k)
\* columns); the y-scale of level k has one entry per row and the x-scale one
\* per column, entry i being i * (angstrom / 10) * 2^k nanometers; the
\* y-scale is bound to axis 0 and the x-scale to axis 1.
C5_ThreeStridedLevels ==
    h5_pc = "done" =>
        LET plane == FirstPlane(h5_data)
        IN  /\ DOMAIN h5file.levels = 1..3
            /\ \A k \in 0..2 :
                 LET lv == h5file.levels[k + 1]
                     rows == CeilDiv(plane[1], Pow2(k))
                     cols == CeilDiv(plane[2], Pow2(k))
                 IN  /\ lv.name = <<"res", k>>
                     /\ lv.data.shape = <<rows, cols>>
                     /\ lv.data.stride = Pow2(k)
                     /\ lv.data.reduced = 0
                     /\ lv.y_scale.n = rows
                     /\ lv.x_scale.n = cols
                     /\ \A i \in 0..(rows - 1) :
                          RatEq(ScaleEntry(lv.y_scale, i),
                                Rat(i * mag.num * Pow2(k), mag.den * 10))
                     /\ \A i \in 0..(cols - 1) :
                          RatEq(ScaleEntry(lv.x_scale, i),
                                Rat(i * mag.num * Pow2(k), mag.den * 10))
                     /\ lv.y_scale.units = "nm" /\ lv.x_scale.units = "nm"
                     /\ lv.dims[1].scale = <<"y_scale_res", k>>
                     /\ lv.dims[2].scale = <<"x_scale_res", k>>
                     /\ lv.y_scale.name = <<"y_scale_res", k>>
                     /\ lv.x_scale.name = <<"x_scale_res", k>>

C5_Witness ==
    /\ h5_pc = "done"
    /\ FirstPlane(h5_data) = <<5, 6>>
    /\ h5file.levels[3].data.shape = <<2, 2>>
    /\ h5file.levels[3].x_scale.n = 2
    /\ h5file.levels[2].y_scale.n = 3

\* The lines of the descriptor read.
MdocLines == SplitLines(ficheiro_mdoc.text, <<>>)

\* The indices of the lines holding the key, and of those among them that
\* split into exactly two parts.
KeyLines(lines) == {i \in 1..Len(lines) : HasKey(lines[i])}
TwoPartKeyLines(lines) ==
    {i \in KeyLines(lines) : Len(Split(lines[i])) = 2}

FirstOf(S) == CHOOSE i \in S : \A j \in S : i <= j

\* What one line yields on its own: the parsed float, or unparsable.
LineValue(linha) ==
    LET partes == Split(linha)
    IN  IF Len(partes) = 2 THEN ParseFloat(partes[2]) ELSE None

\* C10 as claimed: the result is determined by the first line holding the
\* key token alone, and later lines holding it never influence it.
C10_FirstKeyLineDecides ==
    (mag_pc = "returned" /\ ~ficheiro_mdoc.absent /\ KeyLines(MdocLines) # {}) =>
      mag_returned = LineValue(MdocLines[FirstOf(KeyLines(MdocLines))])

\* C10 as amended: the result is determined by the first line that holds the
\* key token and splits on " = " into exactly two parts; key lines of another
\* form are skipped, and lines after that one never influence the result.
C10_FirstTwoPartKeyLineDecides ==
    (mag_pc = "returned" /\ ~ficheiro_mdoc.absent) =>
      IF TwoPartKeyLines(MdocLines) = {}
      THEN mag_returned = None
      ELSE mag_returned =
               LineValue(MdocLines[FirstOf(TwoPartKeyLines(MdocLines))])

\* The first two-part key line has no number and a later key line has one.
C10_Witness ==
    /\ mag_pc = "returned"
    /\ ~ficheiro_mdoc.absent
    /\ Len(MdocLines) = 2
    /\ TwoPartKeyLines(MdocLines) = {1, 2}
    /\ LineValue(MdocLines[2]) = Some(Rat(15, 10))
    /\ mag_returned = None

\* A key line of another form is skipped and the next key line is used.
C10_WitnessSkipped ==
    /\ mag_pc = "returned"
    /\ ~ficheiro_mdoc.absent
    /\ KeyLines(MdocLines) = {1, 2}
    /\ TwoPartKeyLines(MdocLines) = {2}
    /\ mag_returned = Some(Rat(15, 10))

\* The outcome of reading a descriptor, told from its content: the file is
\* absent, no line holds the key in the form the reader uses, the line used
\* holds no number, or it holds one.
Outcome(mdoc) ==
    IF mdoc.absent THEN "absent"
    ELSE LET lines == SplitLines(mdoc.text, <<>>)
         IN  IF TwoPartKeyLines(lines) = {} THEN "not found"
             ELSE IF LineValue(lines[FirstOf(TwoPartKeyLines(lines))]).none
                  THEN "unparsable"
                  ELSE "value"

\* One descriptor of each outcome.
ReferenceDescriptors ==
    {Absent,
     TextFile(<<"1.5", "\n">>),
     TextFile(<<"PixelSpacing", " = ", "PixelSpacing", "\n">>),
     TextFile(<<"PixelSpacing", " = ", "1.5", "\n">>)}

\* C11: get_mag returns (does not raise) on a missing descriptor, and the
\* value it returns tells the three failures apart: two descriptors of
\* different outcome (absent, key not found, value not a number) never yield
\* the same returned value.
C11_OutcomesDistinguished ==
    mag_pc = "returned" =>
        \A ref \in ReferenceDescriptors :
            Outcome(ref) # Outcome(ficheiro_mdoc) =>
                get_mag(ref).value # mag_returned

\* The part of C11 the code delivers: get_mag returns on a missing
\* descriptor; it returns the same None for a missing file, a key that is
\* not found and a value that is no number, and a float otherwise; only the
\* message printed differs between the three failures.
C11_MessagesDistinguished ==
    mag_pc = "returned" =>
        /\ mag_returned = None <=> Outcome(ficheiro_mdoc) # "value"
        /\ Outcome(ficheiro_mdoc) = "value" => mag_returned = Some(Rat(15, 10))
        /\ Outcome(ficheiro_mdoc) = "absent" => mag_printed = "File not found"
        /\ \A ref \in ReferenceDescriptors :
              Outcome(ref) # Outcome(ficheiro_mdoc) =>
                  get_mag(ref).printed # mag_printed

C11_ReturnsOnMissingFile ==
    /\ mag_pc = "returned"
    /\ ficheiro_mdoc.absent
    /\ mag_returned = None
    /\ mag_printed = "File not found"

C11_ReturnsOnUnparsable ==
    /\ mag_pc = "returned"
    /\ Outcome(ficheiro_mdoc) = "unparsable"
    /\ mag_returned = None
    /\ mag_printed = "Could not convert value to float."

\* ------------------------------------------------ claims on the batch
Returned(st) == ppc[st] \in {"returned", "tallied"}

HasEvent(st, op, status) ==
    \E k \in 1..Len(plog[st]) : plog[st][k] = Event(op, status)

EmitterOps == {"ome.tif", "h5", "reduced.ome.tif"}

EmitterEvents(st) ==
    SelectSeq(plog[st], LAMBDA e : e.op \in EmitterOps)

\* Both stitcher commands returned zero and the blended file was found.
Stitched(st) ==
    /\ HasEvent(st, "extractpieces", 0)
    /\ HasEvent(st, "blendmont", 0)
    /\ HasEvent(st, "blended exists", 0)

Complete(path) == Exists(fs, path) /\ fs[path].complete

\* C6: for every file whose stitching succeeded, the unreduced .ome.tif is
\* written first, and exactly one extra product is written if and only if
\* the stitched image has more than 2e9 pixels: the .h5 + .xml pair when H5
\* creation is enabled, the _reduced.ome.tif when it is not; never both, and
\* neither for an image of at most 2e9 pixels.
C6_ProductsBySize ==
    \A st \in Stems :
        (Returned(st) /\ Stitched(st)) =>
            LET ev == EmitterEvents(st)
                pair == Complete(OutputH5(st)) /\ Complete(OutputXml(st))
                reduced == Complete(OutputTiffReduced(st))
                large == pshape[st][1] * pshape[st][2] > LargeImagePixels
            IN  /\ Len(ev) >= 1
                /\ ev[1] = Event("ome.tif", 0)
                /\ Complete(OutputTiff(st))
                /\ (large /\ create_h5) => (pair /\ ~reduced)
                /\ (large /\ ~create_h5) => (reduced /\ ~pair)
                /\ ~large => (~pair /\ ~reduced)

Scenario3Shape == <<30001, 40001>>

\* C7 as claimed: a stitched image of 40001 x 30001 pixels is classified as
\* large; with H5 creation disabled a _reduced.ome.tif and no .h5 is
\* produced, with it enabled the .h5 + .xml pair.
C7_Scenario3IsLarge ==
    \A st \in Stems :
        (preturn[st] = "True" /\ pshape[st] = Scenario3Shape) =>
            /\ plarge[st]
            /\ ~create_h5 => (Complete(OutputTiffReduced(st))
                              /\ ~Exists(fs, OutputH5(st)))
            /\ create_h5 => (Complete(OutputH5(st)) /\ Complete(OutputXml(st)))

\* C7 as amended: a stitched image of 40001 x 30001 pixels (1,200,070,001
\* pixels) is not classified as large: neither a _reduced.ome.tif nor an
\* .h5 + .xml pair is produced for it, whether H5 creation is enabled or not;
\* a successful run leaves exactly the unreduced .ome.tif.
C7_Scenario3NotLarge ==
    \A st \in Stems :
        (Returned(st) /\ pshape[st] = Scenario3Shape) =>
            /\ ~plarge[st]
            /\ ~HasEvent(st, "h5", 0) /\ ~HasEvent(st, "h5", 1)
            /\ ~HasEvent(st, "reduced.ome.tif", 0)
            /\ ~HasEvent(st, "reduced.ome.tif", 1)
            /\ ~Exists(fs, OutputH5(st))
            /\ ~Exists(fs, OutputXml(st))
            /\ ~Exists(fs, OutputTiffReduced(st))
            /\ preturn[st] = "True" =>
                 /\ Complete(OutputTiff(st))
                 /\ fs[OutputTiff(st)].size_x = 40001
                 /\ fs[OutputTiff(st)].size_y = 30001

C7_Witness ==
    \E st \in Stems :
        /\ preturn[st] = "True"
        /\ pshape[st] = Scenario3Shape
        /\ create_h5
        /\ Complete(OutputTiff(st))

\* The number of files of the list whose processing returned success.
RECURSIVE CountTrue(_)
CountTrue(files) ==
    IF files = <<>> THEN 0
    ELSE (IF preturn[Head(files).stem] = "True" THEN 1 ELSE 0)
         + CountTrue(Tail(files))

\* C8: run_batch attempts every discovered file exactly once, in discovery
\* order, whatever failed on earlier files; when it finishes the summary is
\* (files whose processing returned success) / (files discovered) and the
\* progress value is the number of files discovered.
C8_EveryFileOnceInOrder ==
    /\ batch_pc = "loop" =>
         /\ Len(attempted) \in {idx - 1, idx}
         /\ Len(attempted) <= Len(mrc_files)
         /\ attempted = SubSeq(mrc_files, 1, Len(attempted))
         /\ progress_value = idx - 1
    /\ batch_pc = "done" =>
         /\ attempted = mrc_files
         /\ \A k \in 1..Len(mrc_files) : Returned(mrc_files[k].stem)
         /\ summary = <<CountTrue(mrc_files), Len(mrc_files)>>
         /\ progress_value = Len(mrc_files)
         /\ progress_maximum = Len(mrc_files)

C8_Witness ==
    /\ batch_pc = "done"
    /\ Len(mrc_files) = 2
    /\ preturn[mrc_files[1].stem] = "False"
    /\ HasEvent(mrc_files[1].stem, "ome.tif", 1)
    /\ preturn[mrc_files[2].stem] = "True"
    /\ summary = <<1, 2>>

\* The position of the first event of an operation in a file's log (0: none).
FirstAt(st, ops) ==
    IF \E k \in 1..Len(plog[st]) : plog[st][k].op \in ops
    THEN CHOOSE k \in 1..Len(plog[st]) :
            /\ plog[st][k].op \in ops
            /\ \A j \in 1..(k - 1) : plog[st][j].op \notin ops
    ELSE 0

\* C9: the stitcher commands run only after the descriptor exists and a
\* calibration value was read from it; blendmont runs only if extractpieces
\* returned zero; no emitter runs unless both commands returned zero and the
\* blended file exists; a file failing any gate returns failure with no
\* output container written for it.
C9_StepsGated ==
    \A st \in Stems :
        LET ex == FirstAt(st, {"extractpieces"})
            bl == FirstAt(st, {"blendmont"})
            be == FirstAt(st, {"blended exists"})
            em == FirstAt(st, EmitterOps)
        IN  /\ ex > 0 => (Exists(fs, MdocFile(st)) /\ ~pmag[st].none)
            /\ bl > 0 => (ex > 0 /\ ex < bl /\ plog[st][ex].status = 0)
            /\ be > 0 => (bl > 0 /\ bl < be /\ plog[st][bl].status = 0)
            /\ em > 0 => (be > 0 /\ be < em)
            /\ (be > 0 /\ FirstAt(st, {"cleanup"}) = 0) =>
                 Exists(fs, BlendedFile(st))
            /\ (Returned(st) /\ ~Stitched(st)) =>
                 /\ preturn[st] = "False"
                 /\ em = 0
                 /\ ~Exists(fs, OutputTiff(st))
                 /\ ~Exists(fs, OutputH5(st))
                 /\ ~Exists(fs, OutputXml(st))
                 /\ ~Exists(fs, OutputTiffReduced(st))

C9_Witness ==
    \E st \in Stems :
        /\ Returned(st)
        /\ HasEvent(st, "extractpieces", 0)
        /\ HasEvent(st, "blendmont", 1)
        /\ preturn[st] = "False"

C9_WitnessEmitted ==
    \E st \in Stems :
        /\ preturn[st] = "True"
        /\ Stitched(st)
        /\ HasEvent(st, "reduced.ome.tif", 0)

\* The final output paths of a file.
OutputPaths(st) ==
    {OutputTiff(st), OutputH5(st), OutputXml(st), OutputTiffReduced(st)}

\* C12: after process_mrc_file returned failure for a file, none of the
\* file's final output paths holds a partially written container.
C12_NoPartialOutput ==
    \A st \in Stems :
        (Returned(st) /\ preturn[st] = "False") =>
            \A path \in OutputPaths(st) :
                Exists(fs, path) => fs[path].complete

\* The path is one of the inputs the batch found.
IsInput(path) == \E k \in 1..Len(mrc_files) : mrc_files[k] = path

\* The stitcher was invoked for the file: a command was run.
StitcherInvoked(st) == FirstAt(st, {"extractpieces"}) > 0

\* C13: when process_mrc_file has returned for a file on which the stitcher
\* was invoked, successfully or not, the piece list, the edge files and
\* <stem>_blended.mrc (where that is not itself an input) no longer exist in
\* the folder.
C13_ArtifactsRemoved ==
    \A st \in Stems :
        (ppc[st] = "returned" /\ StitcherInvoked(st)) =>
            /\ Glob(fs, "montage_plf") = {}
            /\ Glob(fs, "MONTAGE_EDGES") = {}
            /\ ~IsInput(BlendedFile(st)) => ~Exists(fs, BlendedFile(st))

\* The part of C13 the code delivers: the artifacts are gone after a run
\* that returned success.
C13_RemovedOnSuccess ==
    \A st \in Stems :
        (ppc[st] = "returned" /\ preturn[st] = "True") =>
            /\ Glob(fs, "montage_plf") = {}
            /\ Glob(fs, "MONTAGE_EDGES") = {}
            /\ ~IsInput(BlendedFile(st)) => ~Exists(fs, BlendedFile(st))

\* C16: create_ome_bigtiff_pyramid accepts a raster that is a 3D stack and
\* converts its first plane: once the raster is read the pyramid starts from
\* the (stride-reduced) first plane, and the call raises for its
\* dimensionality only when the raster is neither 2D nor a 3D stack.
C16_StackAccepted ==
    (Len(mrc_data) \in {2, 3} /\ ome_pc \notin {"idle", "read"}) =>
        /\ Len(pyramid) >= 1
        /\ pyramid[1] = ReducedBase(FirstPlane(mrc_data), rf_arg)

\* The part of C16 the code delivers: a 2D raster is accepted.
C16_PlaneAccepted ==
    (Len(mrc_data) = 2 /\ ome_pc \notin {"idle", "read"}) =>
        /\ Len(pyramid) >= 1
        /\ pyramid[1] = ReducedBase(mrc_data, rf_arg)

\* C18: a batch never deletes or overwrites a file of its input list: every
\* discovered .mrc input keeps the content it had when the batch started.
C18_InputsUntouched ==
    batch_pc \in {"loop", "done"} =>
        \A k \in 1..Len(mrc_files) : fs[mrc_files[k]] = Montage

\* The part of C18 the code delivers: an input whose name is not
\* <stem>_blended.mrc of another input is left as it was.
C18_OtherInputsUntouched ==
    batch_pc \in {"loop", "done"} =>
        \A k \in 1..Len(mrc_files) :
            (\A j \in 1..Len(mrc_files) :
                mrc_files[k] # BlendedFile(mrc_files[j].stem)) =>
                    fs[mrc_files[k]] = Montage

\* The number of levels built from a base with a minimum size.
LevelCount(b, min_size) == Len(BuildPyramid(<<b>>, min_size))

\* C15: for a fixed base the number of pyramid levels does not increase
\* with min_size: a pyramid built with a larger min_size has at most as many
\* levels as the one this call built, and one built with a smaller min_size
\* at least as many.
C15_LevelsMonotone ==
    ome_pc = "done" =>
        /\ Len(pyramid) = LevelCount(base, min_size_arg)
        /\ \A m \in 1..(MaxMinSize + 1) :
              /\ m >= min_size_arg => LevelCount(base, m) <= Len(pyramid)
              /\ m <= min_size_arg => LevelCount(base, m) >= Len(pyramid)

C15_Witness ==
    /\ ome_pc = "done"
    /\ min_size_arg = 1
    /\ Len(pyramid) >= 3
    /\ LevelCount(base, 2) < Len(pyramid)
    /\ LevelCount(base, 3) < LevelCount(base, 2)

\* C17: the pyramid loop of create_ome_bigtiff_pyramid terminates for every
\* non-empty 2D base and every min_size >= 1: a call that entered the loop
\* leaves it and returns or raises from the writing, and the pyramid never
\* comes near MaxLevels levels.
C17_PyramidTerminates ==
    /\ [](Len(pyramid) < MaxLevels)
    /\ (ome_pc = "loop") ~> (ome_pc \in {"done", "raised"})

C17_Witness ==
    /\ ome_pc = "done"
    /\ min_size_arg = 1
    /\ pyramid[1].shape = <<MaxDim, MaxDim>>
    /\ pyramid[Len(pyramid)].shape = <<1, 1>>
    /\ Len(pyramid) >= 4

\* A run started alone in the sound environment returns success.
C14_AloneSucceeds ==
    (batch_pc = "parallel" /\ Len(attempted) = 1) =>
        \A st \in Stems : Returned(st) => preturn[st] = "True"

\* C14: runs of process_mrc_file on distinct files started together do not
\* interfere: each returns what it returns when run alone, which in the
\* sound environment is success.
C14_ParallelAsAlone ==
    batch_pc = "parallel" =>
        \A st \in Stems : Returned(st) => preturn[st] = "True"

====
